---------------------------- MODULE Spec2Model ----------------------------
(***************************************************************************)
(* A model of the crusty compiler: the lexer (src/src/lexer.rs), the       *)
(* precedence-climbing parser (src/src/parser.rs) and the x86-64 code      *)
(* generator (src/src/codegen.rs).                                         *)
(*                                                                         *)
(* Text is modelled as a sequence of one-character strings, so that the    *)
(* character-at-a-time scanning of the lexer, the byte length of a string  *)
(* literal and the keyword lookup are computed rather than assumed.        *)
(***************************************************************************)
EXTENDS Integers, Sequences, FiniteSets, TLC

VARIABLES
    source,            \* the source text handed to Lexer::new
    lx,                \* Lexer: pos, line, column (current = source[pos])
    calls,             \* history: the result of every Lexer::next_token call
    ps,                \* Parser: its lexer, its current token
    stmts,             \* Parser::parse: the statements pushed so far
    presult,           \* Parser::parse: "running", "ok" or "err"
    output,            \* CodeGen.output
    strings,           \* CodeGen.strings
    variable_offsets,  \* CodeGen.variable_offsets
    variable_types,    \* CodeGen.variable_types
    string_sect,       \* CodeGen.string_sect
    label_count,       \* CodeGen.label_count
    rbp_offset,        \* CodeGen.rbp_offset
    t_output,          \* CodeGen::generate: its local t_output
    frames,            \* the generate_fn_decl calls in progress, innermost last
    gresult,           \* CodeGen::generate: "running", "ok" or "err"
    glog               \* history: what each statement lowered did

lexvars == <<source, lx, calls>>
parsevars == <<ps, stmts, presult>>
genvars == <<output, strings, variable_offsets, variable_types, string_sect,
             label_count, rbp_offset, t_output, frames, gresult, glog>>
vars == <<source, lx, calls, ps, stmts, presult, output, strings,
          variable_offsets, variable_types, string_sect, label_count,
          rbp_offset, t_output, frames, gresult, glog>>

-----------------------------------------------------------------------------
(* Bounds of the model. *)

\* the longest source text the lexer specification enumerates
MaxLexLen == 4

-----------------------------------------------------------------------------
(* Characters. *)

NoChar == ""          \* Option<char>::None
Nul == "<NUL>"        \* the character '\0'

Digits == {"0", "1", "2", "3", "4", "5", "6", "7", "8", "9"}
Lower == {"a", "b", "c", "d", "e", "f", "g", "h", "i", "j", "k", "l", "m",
          "n", "o", "p", "q", "r", "s", "t", "u", "v", "w", "x", "y", "z"}
Upper == {"A", "B", "C", "D", "E", "F", "G", "H", "I", "J", "K", "L", "M",
          "N", "O", "P", "Q", "R", "S", "T", "U", "V", "W", "X", "Y", "Z"}

is_ascii_digit(c) == c \in Digits
is_numeric(c) == c \in Digits
is_ascii_alphabetic(c) == c \in Lower \cup Upper
is_ascii_alphanumeric(c) == c \in Lower \cup Upper \cup Digits
is_whitespace(c) == c \in {" ", "\n", "\t", "\r"}

-----------------------------------------------------------------------------
(* The lexer. *)

T_int == <<"i", "n", "t">>
T_char == <<"c", "h", "a", "r">>
T_charptr == <<"c", "h", "a", "r", "*">>

\* Lexer::new: the keyword table
keywords ==
    [k \in {T_int, T_char, T_charptr} |-> "DataType"]

\* Lexer::new: the fields after construction
LexerNew == [pos |-> 0, line |-> 1, column |-> 1]

\* Lexer::current: source.chars().nth(pos)
current(src, L) ==
    IF L.pos + 1 <= Len(src) THEN src[L.pos + 1] ELSE NoChar

\* Lexer::peek: the character after the current one
peek(src, L) ==
    IF L.pos + 2 <= Len(src) THEN src[L.pos + 2] ELSE NoChar

\* Lexer::advance
advance(src, L) ==
    LET p == L.pos + 1
        c == IF p + 1 <= Len(src) THEN src[p + 1] ELSE NoChar
    IN  IF c = "\n"
        THEN [pos |-> p, line |-> L.line + 1, column |-> 1]
        ELSE [pos |-> p, line |-> L.line, column |-> L.column + 1]

\* Lexer::make
make(L, token_type, lexeme) ==
    [token_type |-> token_type, lexeme |-> lexeme,
     line |-> L.line, column |-> L.column]

\* Option<Token>::None
NoToken == [token_type |-> "None", lexeme |-> <<>>, line |-> 0, column |-> 0]

RECURSIVE skip_whitespace(_, _)
skip_whitespace(src, L) ==
    IF is_whitespace(current(src, L))
    THEN skip_whitespace(src, advance(src, L))
    ELSE L

RECURSIVE skip_comment_loop(_, _)
skip_comment_loop(src, L) ==
    LET ch == current(src, L)
    IN  IF ch = NoChar \/ ch = "\n" THEN L
        ELSE skip_comment_loop(src, advance(src, L))

skip_comment(src, L) ==
    IF current(src, L) = "-" /\ peek(src, L) = "-"
    THEN skip_comment_loop(src, L)
    ELSE L

\* process_string: the character an escape pair stands for
Escaped(c) ==
    CASE c = "n" -> <<"\n">>
      [] c = "t" -> <<"\t">>
      [] c = "r" -> <<"\r">>
      [] c = "\\" -> <<"\\">>
      [] c = "'" -> <<"'">>
      [] c = "\"" -> <<"\"">>
      [] c = "0" -> <<Nul>>
      [] OTHER -> <<"\\", c>>

RECURSIVE process_string_loop(_, _, _, _)
process_string_loop(src, L, opening_quote, value) ==
    LET ch == current(src, L)
    IN  IF ch = NoChar
        THEN [ok |-> FALSE, value |-> value, L |-> L]
        ELSE IF ch = opening_quote
        THEN [ok |-> TRUE, value |-> value, L |-> advance(src, L)]
        ELSE IF ch = "\\"
        THEN LET L2 == advance(src, L)
                 c == current(src, L2)
             IN  IF c = NoChar
                 THEN [ok |-> FALSE, value |-> value, L |-> L2]
                 ELSE process_string_loop(src, advance(src, L2),
                                          opening_quote, value \o Escaped(c))
        ELSE process_string_loop(src, advance(src, L), opening_quote,
                                 Append(value, ch))

process_string(src, L) ==
    process_string_loop(src, advance(src, L), current(src, L), <<>>)

RECURSIVE process_numeric_loop(_, _, _, _)
process_numeric_loop(src, L, value, floating) ==
    LET ch == current(src, L)
    IN  IF is_numeric(ch)
        THEN process_numeric_loop(src, advance(src, L), Append(value, ch),
                                  floating)
        ELSE IF ch = "." /\ ~floating /\ is_numeric(peek(src, L))
        THEN process_numeric_loop(src, advance(src, L), Append(value, ch),
                                  TRUE)
        ELSE [value |-> value, L |-> L]

process_numeric(src, L) == process_numeric_loop(src, L, <<>>, FALSE)

\* process_identifier: the characters that continue an identifier
IdentifierChar(ch) == is_ascii_alphanumeric(ch) \/ ch = "_" \/ ch = "*"

RECURSIVE process_identifier_loop(_, _, _)
process_identifier_loop(src, L, value) ==
    LET ch == current(src, L)
    IN  IF IdentifierChar(ch)
        THEN process_identifier_loop(src, advance(src, L), Append(value, ch))
        ELSE [value |-> value, L |-> L]

process_identifier(src, L) == process_identifier_loop(src, L, <<>>)

\* next_token: the single-character operators and punctuation
Punctuation ==
    [c \in {"=", ";", ":", ",", "+", "-", "/", "*", "(", ")", "{", "}"} |->
        CASE c = "=" -> "Equals"
          [] c = ";" -> "Semi"
          [] c = ":" -> "Colon"
          [] c = "," -> "Comma"
          [] c = "+" -> "Add"
          [] c = "-" -> "Sub"
          [] c = "/" -> "Div"
          [] c = "*" -> "Mul"
          [] c = "(" -> "LParen"
          [] c = ")" -> "RParen"
          [] c = "{" -> "LBrace"
          [] c = "}" -> "RBrace"]

\* the unknown-character arm without its advance
UnknownChar_NoAdvance(src, L) ==
    [ok |-> FALSE, tok |-> NoToken, L |-> L]

\* next_token: the arm taken for an unknown character
UnknownChar(src, L) ==
    [ok |-> FALSE, tok |-> NoToken, L |-> advance(src, L)]

\* next_token: process_string()?, then make(String, value)
string_token(r) ==
    IF r.ok THEN [ok |-> TRUE, tok |-> make(r.L, "String", r.value), L |-> r.L]
    ELSE [ok |-> FALSE, tok |-> NoToken, L |-> r.L]

\* next_token: make(Number, process_numeric())
number_token(r) ==
    [ok |-> TRUE, tok |-> make(r.L, "Number", r.value), L |-> r.L]

\* next_token: the keyword lookup, then make(typ, value)
identifier_token(r) ==
    [ok |-> TRUE,
     tok |-> make(r.L, IF r.value \in DOMAIN keywords THEN keywords[r.value]
                       ELSE "Identifier", r.value),
     L |-> r.L]

\* next_token: advance, then make(kind, ch)
punctuation_token(ch, L1) ==
    [ok |-> TRUE, tok |-> make(L1, Punctuation[ch], <<ch>>), L |-> L1]

RECURSIVE next_token(_, _)

\* next_token: the loop body after skip_whitespace
token_at(src, L, ch) ==
    IF ch = NoChar
    THEN [ok |-> TRUE, tok |-> make(L, "EOF", <<>>), L |-> L]
    ELSE IF ch = "-" /\ peek(src, L) = "-"
    THEN next_token(src, skip_comment(src, L))
    ELSE IF ch \in {"\"", "'"} THEN string_token(process_string(src, L))
    ELSE IF is_ascii_digit(ch) THEN number_token(process_numeric(src, L))
    ELSE IF is_ascii_alphabetic(ch) \/ ch = "_"
    THEN identifier_token(process_identifier(src, L))
    ELSE IF ch \in DOMAIN Punctuation
    THEN punctuation_token(ch, advance(src, L))
    ELSE UnknownChar(src, L)

\* next_token: the current character after skip_whitespace
token_after_whitespace(src, L) == token_at(src, L, current(src, L))

next_token(src, L0) == token_after_whitespace(src, skip_whitespace(src, L0))

\* Lexer::next: Ok(t) => Some(t), Err(_) => None
option_of(r) ==
    [tok |-> IF r.ok THEN r.tok ELSE NoToken, L |-> r.L, err |-> ~r.ok]

\* Lexer::next: an error becomes None
LexerNext(src, L) == option_of(next_token(src, L))

-----------------------------------------------------------------------------
(* The syntax tree (src/src/ast.rs). *)

Identifier(name) == [e |-> "Identifier", name |-> name]
Number(value) == [e |-> "Number", value |-> value]
String(text) == [e |-> "String", text |-> text]
BinaryOp(left, op, right) ==
    [e |-> "BinaryOp", left |-> left, op |-> op, right |-> right]
FunctionCall(callee, args) ==
    [e |-> "FunctionCall", callee |-> callee, args |-> args]

Expression(expr) == [s |-> "Expression", expr |-> expr]
VariableDecl(data_type, name, value) ==
    [s |-> "VariableDecl", data_type |-> data_type, name |-> name,
     value |-> value]
FunctionDecl(data_type, name, body, params) ==
    [s |-> "FunctionDecl", data_type |-> data_type, name |-> name,
     body |-> body, params |-> params]
Return(value) == [s |-> "Return", value |-> value]
Parameter(data_type, name) == [data_type |-> data_type, name |-> name]

\* Binop::precedence
precedence(op) == IF op \in {"Add", "Sub"} THEN 1 ELSE 2

\* Binop::is_left_linked
is_left_linked(op) == TRUE

-----------------------------------------------------------------------------
(* The parser.  A parser state is its lexer, its current token, and (a     *)
(* history bit) whether any Lexer::next call so far hit a lexical error.   *)
(* Every parse function returns [ok, val, P]: Ok(val) or Err(val), and the *)
(* parser state it leaves.                                                 *)

T_auto == <<"a", "u", "t", "o">>

Ok(val, P) == [ok |-> TRUE, val |-> val, P |-> P]
Err(msg, P) == [ok |-> FALSE, val |-> msg, P |-> P]

\* Parser::advance: the token (or None) Lexer::next returned becomes current
advanced(P, r) == [L |-> r.L, cur |-> r.tok, lexerr |-> P.lexerr \/ r.err]

\* Parser::advance
p_advance(src, P) == advanced(P, LexerNext(src, P.L))

\* Parser::new
ParserNew(src) ==
    p_advance(src, [L |-> LexerNew, cur |-> NoToken, lexerr |-> FALSE])

\* Parser::check
check(P, target_type) ==
    IF P.cur # NoToken
    THEN P.cur.token_type = target_type
    ELSE target_type = "EOF"

\* Parser::consume: token.ok_or_else(..) after the advance
consumed(token, P1) ==
    IF token = NoToken THEN Err("unexpected end of input", P1)
    ELSE Ok(token, P1)

\* Parser::consume
consume(src, P, expected) ==
    IF check(P, expected)
    THEN consumed(P.cur, p_advance(src, P))
    ELSE Err("expected token", P)

\* Parser::binop
binop(P) ==
    IF P.cur # NoToken /\ P.cur.token_type \in {"Add", "Sub", "Mul", "Div"}
    THEN P.cur.token_type
    ELSE "None"

DigitValue(c) ==
    CHOOSE d \in 0..9 : <<"0", "1", "2", "3", "4", "5", "6", "7", "8", "9">>[d + 1] = c

RECURSIVE DecimalValue(_)
DecimalValue(digits) ==
    IF digits = <<>> THEN 0
    ELSE 10 * DecimalValue(SubSeq(digits, 1, Len(digits) - 1))
         + DigitValue(digits[Len(digits)])

RECURSIVE StripZeros(_)
StripZeros(digits) ==
    IF digits # <<>> /\ digits[Len(digits)] = "0"
    THEN StripZeros(SubSeq(digits, 1, Len(digits) - 1))
    ELSE digits

\* str::parse::<f64> on a numeric lexeme: the whole part, and the digits of
\* the fractional part without trailing zeros (5.50 and 5.5 are one value)
ParseF64(lexeme) ==
    LET dots == {i \in 1..Len(lexeme) : lexeme[i] = "."}
    IN  IF dots = {}
        THEN [w |-> DecimalValue(lexeme), fd |-> <<>>]
        ELSE LET i == CHOOSE d \in dots : TRUE
             IN  [w |-> DecimalValue(SubSeq(lexeme, 1, i - 1)),
                  fd |-> StripZeros(SubSeq(lexeme, i + 1, Len(lexeme)))]

RECURSIVE parse_stmt(_, _), parse_function_declaration(_, _, _, _),
          parse_params_loop(_, _, _), parse_body_loop(_, _, _),
          parse_precedence(_, _, _), parse_precedence_loop(_, _, _, _),
          parse_primary(_, _), parse_function_call(_, _, _),
          parse_args_loop(_, _, _, _), parse(_, _, _)

\* Parser::parse_expr
parse_expr(src, P) == parse_precedence(src, P, 0)

\* the right operand parsed at the operator's own precedence
right_min_SamePrecedence(op) == precedence(op)

\* parse_precedence: the minimum precedence of the right operand
right_min(op) ==
    IF is_left_linked(op) THEN precedence(op) + 1 ELSE precedence(op)

\* parse_precedence: left = BinaryOp{left, op, right}, and the loop goes on
precedence_fold(src, min, left, op, r) ==
    IF ~r.ok THEN r
    ELSE parse_precedence_loop(src, r.P, min, BinaryOp(left, op, r.val))

\* parse_precedence: the while loop
parse_precedence_loop(src, P, min, left) ==
    IF binop(P) = "None" \/ precedence(binop(P)) < min
    THEN Ok(left, P)
    ELSE precedence_fold(src, min, left, binop(P),
                         parse_precedence(src, p_advance(src, P),
                                          right_min(binop(P))))

\* parse_precedence: after parse_primary()?
precedence_left(src, min, l) ==
    IF ~l.ok THEN l ELSE parse_precedence_loop(src, l.P, min, l.val)

parse_precedence(src, P, min) ==
    precedence_left(src, min, parse_primary(src, P))

\* parse_primary: an identifier, followed by "(" or not
primary_identifier(src, value, P1) ==
    IF check(P1, "LParen")
    THEN parse_function_call(src, P1, value)
    ELSE Ok(Identifier(value), P1)

\* parse_primary: the ")" of a parenthesized expression
group_close(val, c) == IF ~c.ok THEN c ELSE Ok(val, c.P)

\* parse_primary: a parenthesized expression, after its inner expression
primary_group(src, r) ==
    IF ~r.ok THEN r ELSE group_close(r.val, consume(src, r.P, "RParen"))

parse_primary(src, P) ==
    IF P.cur = NoToken THEN Err("unexpected end of input", P)
    ELSE CASE P.cur.token_type = "Number" ->
                Ok(Number(ParseF64(P.cur.lexeme)), p_advance(src, P))
           [] P.cur.token_type = "Identifier" ->
                primary_identifier(src, P.cur.lexeme, p_advance(src, P))
           [] P.cur.token_type = "String" ->
                Ok(String(P.cur.lexeme), p_advance(src, P))
           [] P.cur.token_type = "LParen" ->
                primary_group(src, parse_expr(src, p_advance(src, P)))
           [] OTHER -> Err("unexpected token", P)

\* parse_function_call: after the closing ")"
call_close(callee, args, c) ==
    IF ~c.ok THEN c ELSE Ok(FunctionCall(callee, args), c.P)

\* parse_function_call: after one argument was parsed
args_next(src, callee, args, r) ==
    IF ~r.ok THEN r
    ELSE IF check(r.P, "Comma")
    THEN parse_args_loop(src, p_advance(src, r.P), callee, Append(args, r.val))
    ELSE IF check(r.P, "RParen")
    THEN call_close(callee, Append(args, r.val), consume(src, r.P, "RParen"))
    ELSE Err("Expected ',' or ')' in function call arguments list.", r.P)

\* parse_function_call: the argument loop
parse_args_loop(src, P, callee, args) ==
    args_next(src, callee, args, parse_expr(src, P))

\* parse_function_call: after the "(" was eaten
call_args(src, callee, P1) ==
    IF check(P1, "RParen")
    THEN Ok(FunctionCall(callee, <<>>), p_advance(src, P1))
    ELSE parse_args_loop(src, P1, callee, <<>>)

parse_function_call(src, P, callee) ==
    call_args(src, callee, p_advance(src, P))

\* parse_return_stmt: Ok(Stmt::Return)
wrap_return(r) == IF ~r.ok THEN r ELSE Ok(Return(r.val), r.P)

\* parse_return_stmt: after consume(Return)?
return_value(src, c) ==
    IF ~c.ok THEN c ELSE wrap_return(parse_expr(src, c.P))

\* Parser::parse_return_stmt
parse_return_stmt(src, P) == return_value(src, consume(src, P, "Return"))

\* parse_function_declaration: one parameter, after its name
param_next(src, params, data_type, n) ==
    IF ~n.ok THEN n
    ELSE IF check(n.P, "Comma")
    THEN parse_params_loop(src, p_advance(src, n.P),
                           Append(params, Parameter(data_type, n.val.lexeme)))
    ELSE IF check(n.P, "RParen")
    THEN Ok(Append(params, Parameter(data_type, n.val.lexeme)),
            p_advance(src, n.P))
    ELSE Err("Expected ',' or ')' in function parameters", n.P)

\* parse_function_declaration: one parameter, after its type
param_name(src, params, t) ==
    IF ~t.ok THEN t
    ELSE param_next(src, params, t.val.lexeme, consume(src, t.P, "Identifier"))

\* parse_function_declaration: the parameter loop
parse_params_loop(src, P, params) ==
    param_name(src, params, consume(src, P, "DataType"))

\* parse_function_declaration: the body loop, after one statement
body_next(src, body, r) ==
    IF ~r.ok THEN r ELSE parse_body_loop(src, r.P, Append(body, r.val))

\* parse_function_declaration: the body loop
parse_body_loop(src, P, body) ==
    IF check(P, "RBrace") THEN Ok(body, P)
    ELSE body_next(src, body, parse_stmt(src, P))

\* parse_function_declaration: Ok(Stmt::FunctionDecl)
fn_make(data_type, name, params, body, rb) ==
    IF ~rb.ok THEN rb
    ELSE Ok(FunctionDecl(data_type, name, body, params), rb.P)

\* parse_function_declaration: after the body
fn_rbrace(src, data_type, name, params, b) ==
    IF ~b.ok THEN b
    ELSE fn_make(data_type, name, params, b.val, consume(src, b.P, "RBrace"))

\* parse_function_declaration: after consume(LBrace)?
fn_body(src, data_type, name, params, lb) ==
    IF ~lb.ok THEN lb
    ELSE fn_rbrace(src, data_type, name, params,
                   parse_body_loop(src, lb.P, <<>>))

\* parse_function_declaration: after the parameter list
fn_lbrace(src, data_type, name, pr) ==
    IF ~pr.ok THEN pr
    ELSE fn_body(src, data_type, name, pr.val, consume(src, pr.P, "LBrace"))

\* parse_function_declaration: after consume(LParen)?
fn_params(src, data_type, name, lp) ==
    IF ~lp.ok THEN lp
    ELSE fn_lbrace(src, data_type, name,
                   IF check(lp.P, "RParen")
                   THEN Ok(<<>>, p_advance(src, lp.P))
                   ELSE parse_params_loop(src, lp.P, <<>>))

parse_function_declaration(src, P, data_type, name) ==
    fn_params(src, data_type, name, consume(src, P, "LParen"))

\* parse_variable_declaration: Ok(Stmt::VariableDecl)
decl_make(data_type, name, v) ==
    IF ~v.ok THEN v ELSE Ok(VariableDecl(data_type, name, v.val), v.P)

\* parse_variable_declaration: after consume(Equals)?
decl_value(src, data_type, name, eq) ==
    IF ~eq.ok THEN eq ELSE decl_make(data_type, name, parse_expr(src, eq.P))

\* parse_variable_declaration: after the name
decl_rest(src, data_type, n) ==
    IF ~n.ok THEN n
    ELSE IF check(n.P, "LParen")
    THEN parse_function_declaration(src, n.P, data_type, n.val.lexeme)
    ELSE decl_value(src, data_type, n.val.lexeme,
                    consume(src, n.P, "Equals"))

\* parse_variable_declaration: after the data type
decl_name(src, dt) ==
    IF ~dt.ok THEN dt
    ELSE decl_rest(src, dt.val, consume(src, dt.P, "Identifier"))

\* parse_variable_declaration: the lexeme of the data-type token
lexeme_of(c) == IF c.ok THEN Ok(c.val.lexeme, c.P) ELSE c

\* parse_variable_declaration: the data type, "auto" without a DataType token
decl_type(src, P) ==
    IF check(P, "DataType")
    THEN lexeme_of(consume(src, P, "DataType"))
    ELSE Ok(T_auto, P)

\* Parser::parse_variable_declaration
parse_variable_declaration(src, P) == decl_name(src, decl_type(src, P))

\* parse_stmt: Stmt::Expression(parse_expr()?)
wrap_expression(r) == IF ~r.ok THEN r ELSE Ok(Expression(r.val), r.P)

\* parse_stmt: the production chosen by the current token's kind
stmt_dispatch(src, P) ==
    CASE P.cur.token_type = "DataType" -> parse_variable_declaration(src, P)
      [] P.cur.token_type = "Return" -> parse_return_stmt(src, P)
      [] OTHER -> wrap_expression(parse_expr(src, P))

\* parse_stmt, parse: if self.check(Semi) { self.advance() }
skip_semi(src, P) == IF check(P, "Semi") THEN p_advance(src, P) ELSE P

\* parse_stmt: after the statement
after_stmt(src, r) == IF ~r.ok THEN r ELSE Ok(r.val, skip_semi(src, r.P))

parse_stmt(src, P) ==
    IF P.cur = NoToken THEN Err("unexpected end of input", P)
    ELSE after_stmt(src, stmt_dispatch(src, P))

\* Parser::parse: stmts.push, and the loop goes on
parse_next(src, acc, r) ==
    IF ~r.ok THEN r ELSE parse(src, skip_semi(src, r.P), Append(acc, r.val))

\* Parser::parse
parse(src, P, acc) ==
    IF check(P, "EOF") THEN Ok(acc, P)
    ELSE parse_next(src, acc, parse_stmt(src, P))

-----------------------------------------------------------------------------
(* The code generator.  A line of assembly is a record [inst, a, b] and an *)
(* operand a record [k, v, r, sym]: an immediate $v, a register r, a stack *)
(* slot -v(%rbp), a string label .LCv(%rip), or a symbol.  A number is     *)
(* [w, fd]: its whole part and the digits of its fraction.  The operators  *)
(* below take and return the CodeGen as a record G of its fields, with     *)
(* G.ok = FALSE once a handler has returned Err.                           *)

Whole(n) == [w |-> n, fd |-> <<>>]

NoOperand == [k |-> "none", v |-> Whole(0), r |-> "", sym |-> <<>>]
Imm(v) == [k |-> "imm", v |-> v, r |-> "", sym |-> <<>>]
Reg(r) == [k |-> "reg", v |-> Whole(0), r |-> r, sym |-> <<>>]
Mem(offset) == [k |-> "mem", v |-> Whole(offset), r |-> "%rbp", sym |-> <<>>]
Lbl(label) == [k |-> "rip", v |-> Whole(label), r |-> "%rip", sym |-> <<>>]
Sym(name) == [k |-> "sym", v |-> Whole(0), r |-> "", sym |-> name]

Line(inst, a, b) == [inst |-> inst, a |-> a, b |-> b]

\* HashMap::insert, HashMap::new
MapPut(m, key, value) ==
    [x \in DOMAIN m \cup {key} |-> IF x = key THEN value ELSE m[x]]
EmptyMap == <<>>

\* `n as i32`, `n as i64` of a non-negative f64 within the integer range:
\* the fraction is dropped
AsI32(n) == Whole(n.w)
AsI64(n) == Whole(n.w)

\* str::as_bytes()[0] of the one-character strings the model lowers
AsciiCode(c) ==
    CASE c = "A" -> 65 [] c = "B" -> 66 [] c = "a" -> 97 [] c = "b" -> 98
      [] c = "h" -> 104 [] c = "i" -> 105 [] c = "0" -> 48 [] c = " " -> 32
      [] c = "\n" -> 10 [] c = "\\" -> 92 [] c = "\"" -> 34

\* CodeGen::get_type_size
get_type_size(data_type) ==
    CASE data_type = T_int -> 4
      [] data_type = T_char -> 1
      [] data_type = T_charptr -> 8
      [] OTHER -> 0

\* the register tables, indexed from 1
arg_regs == <<"%rdi", "%rsi", "%rdx", "%rcx", "%r8", "%r9">>
regs_32bit == <<"%edi", "%esi", "%edx", "%ecx", "%r8d", "%r9d">>
regs_8bit == <<"%dil", "%sil", "%dl", "%cl", "%r8b", "%r9b">>

\* CodeGen::emit_line, CodeGen::emit: one line appended (isize stays 0)
emit_line(G, line) == [G EXCEPT !.output = Append(@, line)]

\* return Err(..)
fail(G) == [G EXCEPT !.ok = FALSE]

\* CodeGen::get_escaped_string: one character (the texts lowered hold no
\* control character besides the ones listed)
EscapeChar(c) ==
    CASE c = "\n" -> <<"\\", "n">>
      [] c = "\t" -> <<"\\", "t">>
      [] c = "\r" -> <<"\\", "r">>
      [] c = "\\" -> <<"\\", "\\">>
      [] c = "\"" -> <<"\\", "\"">>
      [] c = Nul -> <<"\\", "0">>
      [] OTHER -> <<c>>

\* CodeGen::get_escaped_string
RECURSIVE get_escaped_string(_)
get_escaped_string(str) ==
    IF str = <<>> THEN <<>>
    ELSE EscapeChar(Head(str)) \o get_escaped_string(Tail(str))

\* the two lines generate_string pushes to string_sect
StringEntry(lc, str) ==
    <<Line("label", Lbl(lc), NoOperand),
      Line(".string", Sym(get_escaped_string(str)), NoOperand)>>

\* generate_string without the contains_key test
generate_string_NoLookup(G, str) ==
    [G EXCEPT !.label_count = @ + 1,
              !.strings = MapPut(@, str, G.label_count),
              !.string_sect = @ \o StringEntry(G.label_count, str)]

\* CodeGen::generate_string
generate_string(G, str) ==
    IF str \in DOMAIN G.strings THEN G
    ELSE [G EXCEPT !.label_count = @ + 1,
                   !.strings = MapPut(@, str, G.label_count),
                   !.string_sect = @ \o StringEntry(G.label_count, str)]

\* generate_function_call: leaq .LCn(%rip), reg for an interned string
load_string(G, str, reg) ==
    emit_line(G, Line("leaq", Lbl(G.strings[str]), Reg(reg)))

\* generate_function_call: an Identifier argument whose offset is known
load_identifier(G, ident, i) ==
    IF ident \notin DOMAIN G.variable_types THEN fail(G)
    ELSE CASE G.variable_types[ident] = T_int ->
                emit_line(G, Line("movl", Mem(G.variable_offsets[ident]),
                                  Reg(regs_32bit[i])))
           [] G.variable_types[ident] = T_charptr ->
                emit_line(G, Line("movq", Mem(G.variable_offsets[ident]),
                                  Reg(arg_regs[i])))
           [] G.variable_types[ident] = T_char ->
                emit_line(G, Line("movzbl", Mem(G.variable_offsets[ident]),
                                  Reg(regs_32bit[i])))
           [] OTHER -> fail(G)

\* generate_function_call: the match on one of the first six arguments
load_arg(G, arg, i) ==
    CASE arg.e = "Identifier" ->
            IF arg.name \notin DOMAIN G.variable_offsets THEN fail(G)
            ELSE load_identifier(G, arg.name, i)
      [] arg.e = "String" ->
            load_string(generate_string(G, arg.text), arg.text, arg_regs[i])
      [] arg.e = "Number" ->
            emit_line(G, Line("movq", Imm(AsI64(arg.value)), Reg(arg_regs[i])))
      [] OTHER -> fail(G)

\* generate_function_call: the loop over the arguments, from argument i
RECURSIVE load_args(_, _, _)
load_args(G, args, i) ==
    IF ~G.ok \/ i > Len(args) THEN G
    ELSE IF i <= 6 THEN load_args(load_arg(G, args[i], i), args, i + 1)
    ELSE load_args(G, args, i + 1)

\* the call emitted without the variadic marker, whatever the callee
emit_call_NoMarker(G, callee) ==
    IF ~G.ok THEN G
    ELSE emit_line(G, Line("call", Sym(callee), NoOperand))

\* generate_function_call: the variadic marker and the call
emit_call(G, callee) ==
    IF ~G.ok THEN G
    ELSE emit_line(IF callee = <<"p", "r", "i", "n", "t", "f">>
                   THEN emit_line(G, Line("movl", Imm(Whole(0)), Reg("%eax")))
                   ELSE G,
                   Line("call", Sym(callee), NoOperand))

\* CodeGen::generate_function_call
generate_function_call(G, callee, args) ==
    emit_call(load_args(G, args, 1), callee)

\* CodeGen::generate_return_stmt
generate_return_stmt(G, ret) ==
    CASE ret.value.e = "Number" ->
            emit_line(G, Line("movl", Imm(AsI32(ret.value.value)), Reg("%eax")))
      [] ret.value.e = "Identifier" ->
            IF ret.value.name \notin DOMAIN G.variable_offsets THEN fail(G)
            ELSE IF ret.value.name \notin DOMAIN G.variable_types THEN fail(G)
            ELSE CASE G.variable_types[ret.value.name] = T_int ->
                        emit_line(G, Line("movl",
                                          Mem(G.variable_offsets[ret.value.name]),
                                          Reg("%eax")))
                   [] G.variable_types[ret.value.name] = T_char ->
                        emit_line(G, Line("movzbl",
                                          Mem(G.variable_offsets[ret.value.name]),
                                          Reg("%eax")))
                   [] OTHER -> fail(G)
      [] OTHER -> fail(G)

\* the counter left where the size put it, without rounding
RoundUp8_NoRounding(offset) == offset

\* generate_var_decl: the counter after the slot was allocated
RoundUp8(offset) ==
    IF offset % 8 # 0 THEN offset + (8 - (offset % 8)) ELSE offset

\* generate_var_decl: the slot is allocated, the offset and the type recorded
allocate_slot(G, var_decl, offset) ==
    [G EXCEPT !.rbp_offset = offset,
              !.variable_offsets = MapPut(@, var_decl.name, offset),
              !.variable_types = MapPut(@, var_decl.name, var_decl.data_type)]

\* generate_var_decl: a string initializer longer than one byte, interned
store_string(G, str) ==
    emit_line(emit_line(G, Line("leaq", Lbl(G.strings[str]), Reg("%rax"))),
              Line("movq", Reg("%rax"), Mem(G.rbp_offset)))

\* generate_var_decl: the return value of the call moved into the slot
store_return_value(G, data_type) ==
    IF ~G.ok THEN G
    ELSE CASE data_type = T_int ->
                emit_line(G, Line("movl", Reg("%eax"), Mem(G.rbp_offset)))
           [] data_type = T_char ->
                emit_line(G, Line("movb", Reg("%al"), Mem(G.rbp_offset)))
           [] OTHER -> fail(G)

\* generate_var_decl: the match on the initializer
lower_initializer(G, var_decl) ==
    CASE var_decl.value.e = "Number" ->
            emit_line(G, Line("movl", Imm(var_decl.value.value),
                              Mem(G.rbp_offset)))
      [] var_decl.value.e = "String" ->
            IF Len(var_decl.value.text) = 1
            THEN emit_line(G, Line("movl",
                                   Imm(Whole(AsciiCode(var_decl.value.text[1]))),
                                   Mem(G.rbp_offset)))
            ELSE store_string(generate_string(G, var_decl.value.text),
                              var_decl.value.text)
      [] var_decl.value.e = "FunctionCall" ->
            store_return_value(
                generate_function_call(G, var_decl.value.callee,
                                       var_decl.value.args),
                var_decl.data_type)
      [] OTHER -> G

\* CodeGen::generate_var_decl
generate_var_decl(G, var_decl) ==
    lower_initializer(
        allocate_slot(G, var_decl,
                      RoundUp8(G.rbp_offset + get_type_size(var_decl.data_type))),
        var_decl)

\* CodeGen::generate_expr_stmt
generate_expr_stmt(G, expr) ==
    IF expr.e = "FunctionCall"
    THEN generate_function_call(G, expr.callee, expr.args)
    ELSE G

\* generate_fn_decl: the first loop, offsets assigned to the parameters
RECURSIVE assign_params(_, _, _)
assign_params(G, params, i) ==
    IF i > Len(params) THEN G
    ELSE assign_params(
            [G EXCEPT !.rbp_offset = @ + get_type_size(params[i].data_type),
                      !.variable_offsets =
                          MapPut(@, params[i].name,
                                 G.rbp_offset + get_type_size(params[i].data_type))],
            params, i + 1)

\* generate_fn_decl: the label, the frame setup and the stack reservation
emit_prologue(G, name) ==
    LET setup == <<Line("label", Sym(name), NoOperand),
                   Line("pushq", Reg("%rbp"), NoOperand),
                   Line("movq", Reg("%rsp"), Reg("%rbp"))>>
    IN  [G EXCEPT !.output =
            @ \o setup \o
            IF G.rbp_offset > 0
            THEN <<Line("subq", Imm(Whole(((G.rbp_offset + 15) \div 16) * 16)),
                        Reg("%rsp"))>>
            ELSE <<>>]

\* CodeGen::save_param_to_stk (the register getters never fail for idx < 6)
save_param_to_stk(G, param, reg_idx) ==
    IF param.name \notin DOMAIN G.variable_offsets THEN fail(G)
    ELSE CASE param.data_type = T_charptr ->
                emit_line(G, Line("movq", Reg(arg_regs[reg_idx]),
                                  Mem(G.variable_offsets[param.name])))
           [] param.data_type = T_int ->
                emit_line(G, Line("movl", Reg(regs_32bit[reg_idx]),
                                  Mem(G.variable_offsets[param.name])))
           [] param.data_type = T_char ->
                emit_line(G, Line("movb", Reg(regs_8bit[reg_idx]),
                                  Mem(G.variable_offsets[param.name])))
           [] OTHER -> fail(G)

\* the second loop stopping after the sixth parameter without an error
RECURSIVE spill_params_FirstSixOnly(_, _, _)
spill_params_FirstSixOnly(G, params, i) ==
    IF ~G.ok \/ i > Len(params) \/ i > 6 THEN G
    ELSE spill_params_FirstSixOnly(save_param_to_stk(G, params[i], i), params,
                                   i + 1)

\* generate_fn_decl: the second loop, the parameters spilled to their slots
RECURSIVE spill_params(_, _, _)
spill_params(G, params, i) ==
    IF ~G.ok \/ i > Len(params) THEN G
    ELSE IF i <= 6
    THEN spill_params(save_param_to_stk(G, params[i], i), params, i + 1)
    ELSE fail(G)

\* CodeGen::generate_fn_decl, up to the loop over the body
fn_decl_enter(G, func_decl) ==
    spill_params(
        emit_prologue(assign_params([G EXCEPT !.rbp_offset = 0],
                                    func_decl.params, 1),
                      func_decl.name),
        func_decl.params, 1)

\* CodeGen::generate_fn_decl, after the loop over the body
fn_decl_leave(G) ==
    emit_line(emit_line(G, Line("leave", NoOperand, NoOperand)),
              Line("ret", NoOperand, NoOperand))

\* CodeGen::generate, after the loop over the statements: the sections
generate_finish(G, t_out) ==
    [G EXCEPT !.output =
        t_out
        \o (IF G.string_sect # <<>>
            THEN <<Line(".section .rodata", NoOperand, NoOperand)>>
                 \o G.string_sect
            ELSE <<>>)
        \o <<Line(".section .text", NoOperand, NoOperand),
             Line(".globl main", NoOperand, NoOperand),
             Line(".type main, @function", NoOperand, NoOperand)>>
        \o G.output]

-----------------------------------------------------------------------------
(* The lexer on its own: repeated next_token calls on one source text. *)

LexAlphabet == {"a", "1", " ", "-", "\n", "\"", "\\", "@", "*", "."}

RECURSIVE TextsUpTo(_, _)
TextsUpTo(alphabet, n) ==
    IF n = 0 THEN {<<>>}
    ELSE LET shorter == TextsUpTo(alphabet, n - 1)
         IN  shorter \cup {Append(t, c) : t \in {s \in shorter : Len(s) = n - 1},
                                          c \in alphabet}

IdleParser == [L |-> LexerNew, cur |-> NoToken, lexerr |-> FALSE]

ParseIdle ==
    /\ ps = IdleParser
    /\ stmts = <<>>
    /\ presult = "idle"

GenIdle ==
    /\ output = <<>>
    /\ strings = <<>>
    /\ variable_offsets = <<>>
    /\ variable_types = <<>>
    /\ string_sect = <<>>
    /\ label_count = 0
    /\ rbp_offset = 0
    /\ t_output = <<>>
    /\ frames = <<>>
    /\ gresult = "idle"
    /\ glog = <<>>

InitLex ==
    /\ source \in TextsUpTo(LexAlphabet, MaxLexLen)
    /\ lx = LexerNew
    /\ calls = <<>>
    /\ ParseIdle
    /\ GenIdle

\* the calls made after EOF was first returned
CallsAfterEOF ==
    IF \E i \in 1..Len(calls) : calls[i].ok /\ calls[i].tok.token_type = "EOF"
    THEN Len(calls) - (CHOOSE i \in 1..Len(calls) :
                          /\ calls[i].ok /\ calls[i].tok.token_type = "EOF"
                          /\ \A j \in 1..(i - 1) :
                                ~(calls[j].ok /\ calls[j].tok.token_type = "EOF"))
    ELSE 0

MaxCallsAfterEOF == 2

\* one call of next_token
NextToken ==
    /\ CallsAfterEOF < MaxCallsAfterEOF
    /\ LET r == next_token(source, lx)
       IN  /\ lx' = r.L
           /\ calls' = Append(calls, [ok |-> r.ok, tok |-> r.tok,
                                      before |-> lx.pos, after |-> r.L.pos])
    /\ UNCHANGED <<source, parsevars, genvars>>

NextLex == NextToken

SpecLex == InitLex /\ [][NextLex]_vars

-----------------------------------------------------------------------------
(* The parser on a source text: Parser::new, then Parser::parse. *)

\* the longest chain of primaries, and the longest free text, parsed
MaxChain == 4
MaxParseLen == 3

\* spec, end-to-end scenario 1
Scenario1 ==
    <<"i", "n", "t", " ", "m", "a", "i", "n", "(", ")", " ", "{", " ",
      "i", "n", "t", " ", "x", " ", "=", " ", "5", ";", " ", "r", "e",
      "t", "u", "r", "n", " ", "x", ";", " ", "}">>

ParseAlphabet == {"x", " ", "@", "\"", ";", "1", "="}

\* the primaries of a chain, each with the leaf it stands for
ChainPrimaries ==
    {[text |-> <<"a">>, expr |-> Identifier(<<"a">>)],
     [text |-> <<"7">>, expr |-> Number([w |-> 7, fd |-> <<>>])],
     [text |-> <<"'", "s", "'">>, expr |-> String(<<"s">>)]}

Binops == {"Add", "Sub", "Mul", "Div"}

OpChar(op) ==
    CASE op = "Add" -> "+" [] op = "Sub" -> "-" [] op = "Mul" -> "*"
      [] op = "Div" -> "/"

\* a chain p1 o1 p2 ... pk: k primaries and k - 1 operators
Chains ==
    UNION {[prims : [1..k -> ChainPrimaries], ops : [1..(k - 1) -> Binops]] :
           k \in 1..MaxChain}

\* the text of a chain, its tokens separated by one space
RECURSIVE RenderFrom(_, _)
RenderFrom(c, i) ==
    IF i = Len(c.prims) THEN c.prims[i].text
    ELSE c.prims[i].text \o <<" ", OpChar(c.ops[i]), " ">> \o RenderFrom(c, i + 1)

Render(c) == RenderFrom(c, 1)

\* The standard grouping of the primaries lo..hi of a chain, by splitting at
\* the last operator of the lowest precedence present: left-associative, and
\* * and / tighter than + and -.
RECURSIVE Standard(_, _, _)
Standard(c, lo, hi) ==
    IF lo = hi THEN c.prims[lo].expr
    ELSE LET low == {i \in lo..(hi - 1) : c.ops[i] \in {"Add", "Sub"}}
             cand == IF low # {} THEN low ELSE lo..(hi - 1)
             j == CHOOSE i \in cand : \A k \in cand : k <= i
         IN  BinaryOp(Standard(c, lo, j), c.ops[j], Standard(c, j + 1, hi))

\* every chain's text with the statement list it should parse to
ChainCases ==
    {<<Render(c), <<Expression(Standard(c, 1, Len(c.prims)))>>>> : c \in Chains}

ChainSources == {cs[1] : cs \in ChainCases}

ParseSources ==
    {Scenario1} \cup ChainSources \cup TextsUpTo(ParseAlphabet, MaxParseLen)

LexIdle ==
    /\ lx = LexerNew
    /\ calls = <<>>

InitParse ==
    /\ source \in ParseSources
    /\ ps = ParserNew(source)
    /\ stmts = <<>>
    /\ presult = "running"
    /\ LexIdle
    /\ GenIdle

\* Parser::parse, from the state Parser::new left
Parse ==
    /\ presult = "running"
    /\ LET r == parse(source, ps, <<>>)
       IN  /\ presult' = IF r.ok THEN "ok" ELSE "err"
           /\ stmts' = IF r.ok THEN r.val ELSE <<>>
           /\ ps' = r.P
    /\ UNCHANGED <<lexvars, genvars>>

NextParse == Parse

SpecParse == InitParse /\ [][NextParse]_vars

-----------------------------------------------------------------------------
(* The code generator on a program: CodeGen::new, then CodeGen::generate,  *)
(* one action per statement lowered.  A FunctionDecl is entered (its       *)
(* parameters and prologue), its body statements are lowered by the same   *)
(* actions, and it is left (leave, ret).                                   *)

\* the most statements one generate run lowers
MaxGenStmts == 2
\* the longest parameter list and argument list of the wide specification
MaxParams == 7
MaxArgs == 7

N_x == <<"x">>
N_y == <<"y">>
N_p == <<"p">>
N_q == <<"q">>
N_f == <<"f">>
N_main == <<"m", "a", "i", "n">>
N_printf == <<"p", "r", "i", "n", "t", "f">>
S_hi == <<"h", "i">>
S_yo == <<"y", "o">>

GenTypes == {T_int, T_char, T_charptr, T_auto}
KnownTypes == {T_int, T_char, T_charptr}

\* the value of the literal 5.5
FiveAndHalf == [w |-> 5, fd |-> <<"5">>]

GenInitializers ==
    {Number(Whole(5)), String(<<"A">>), String(S_hi), FunctionCall(N_f, <<>>),
     Identifier(N_x), BinaryOp(Number(Whole(5)), "Add", Number(Whole(5))),
     Number(FiveAndHalf)}

GenVarDecls ==
    {VariableDecl(t, N_x, v) : t \in GenTypes, v \in GenInitializers}
    \cup {VariableDecl(t, N_y, v) : t \in KnownTypes,
                                    v \in {Number(Whole(5)), String(S_hi)}}

GenReturns ==
    {Return(v) : v \in {Number(Whole(5)), Identifier(N_x), Identifier(N_p),
                        String(S_hi), Number(FiveAndHalf), Number(Whole(0))}}

GenArgs ==
    {Identifier(N_x), Identifier(N_p), String(S_hi), String(S_yo),
     Number(Whole(5))}

GenArgLists ==
    {<<>>} \cup {<<a>> : a \in GenArgs}
    \cup {<<String(S_hi), String(S_hi)>>, <<String(S_hi), String(S_yo)>>,
          <<String(S_yo), Identifier(N_x)>>}

GenExprs ==
    {FunctionCall(c, args) : c \in {N_printf, N_f}, args \in GenArgLists}
    \cup {Identifier(N_x)}

GenParamLists ==
    {<<>>, <<Parameter(T_auto, N_p)>>}
    \cup {<<Parameter(t, N_p)>> : t \in KnownTypes}
    \cup {<<Parameter(t, N_p), Parameter(u, N_q)>> : t \in KnownTypes,
                                                     u \in KnownTypes}

GenFnDecls == {FunctionDecl(T_int, N_main, <<>>, pl) : pl \in GenParamLists}

\* the name of the i-th parameter of the wide specification
ParamName(i) ==
    <<"p", <<"1", "2", "3", "4", "5", "6", "7", "8", "9">>[i]>>

\* the parameter list p1 .. pk with the types ts[1] .. ts[k]
WideParams(ts) ==
    [i \in DOMAIN ts |-> Parameter(ts[i], ParamName(i))]

\* the argument values of the wide specification
WideArgs == {Number(Whole(5)), String(S_hi)}

\* CodeGen::new
InitGen ==
    /\ output = <<>>
    /\ strings = EmptyMap
    /\ variable_offsets = EmptyMap
    /\ variable_types = EmptyMap
    /\ string_sect = <<>>
    /\ label_count = 0
    /\ rbp_offset = 0
    /\ t_output = <<>>
    /\ frames = <<>>
    /\ gresult = "new"
    /\ glog = <<>>
    /\ source = <<>>
    /\ LexIdle
    /\ ParseIdle

\* the CodeGen a handler is called on
Self ==
    [output |-> output, strings |-> strings,
     variable_offsets |-> variable_offsets, variable_types |-> variable_types,
     string_sect |-> string_sect, label_count |-> label_count,
     rbp_offset |-> rbp_offset, ok |-> TRUE]

\* the CodeGen a handler leaves; an Err ends the generate run (the `?`)
Commit(G) ==
    /\ output' = G.output
    /\ strings' = G.strings
    /\ variable_offsets' = G.variable_offsets
    /\ variable_types' = G.variable_types
    /\ string_sect' = G.string_sect
    /\ label_count' = G.label_count
    /\ rbp_offset' = G.rbp_offset
    /\ gresult' = IF G.ok THEN gresult ELSE "err"

\* history: the statement lowered, its result, the lines it emitted
Logged(stmt, G) ==
    glog' = Append(glog, [stmt |-> stmt, ok |-> G.ok, depth |-> Len(frames),
                          from |-> Len(output), to |-> Len(G.output)])

Lowering == gresult = "running" /\ Len(glog) < MaxGenStmts

\* CodeGen::generate, its first lines: the output buffer swapped out
GenerateStart ==
    /\ gresult = "new"
    /\ t_output' = output
    /\ output' = <<>>
    /\ gresult' = "running"
    /\ UNCHANGED <<strings, variable_offsets, variable_types, string_sect,
                   label_count, rbp_offset, frames, glog, lexvars, parsevars>>

\* a local declared in the innermost function: its slot noted in the frame
FrameSlot(G) ==
    IF frames = <<>> THEN frames
    ELSE [frames EXCEPT ![Len(frames)].slots = @ \cup {G.rbp_offset}]

VarDeclDone(var_decl, G) ==
    /\ Commit(G)
    /\ Logged(var_decl, G)
    /\ frames' = FrameSlot(G)
    /\ UNCHANGED <<t_output, lexvars, parsevars>>

\* generate_stmt on a VariableDecl
GenerateVarDecl(var_decl) ==
    /\ Lowering
    /\ VarDeclDone(var_decl, generate_var_decl(Self, var_decl))

StmtDone(stmt, G) ==
    /\ Commit(G)
    /\ Logged(stmt, G)
    /\ UNCHANGED <<frames, t_output, lexvars, parsevars>>

\* generate_stmt on a Return
GenerateReturn(ret) ==
    /\ Lowering
    /\ StmtDone(ret, generate_return_stmt(Self, ret))

\* generate_stmt on an Expression
GenerateExprStmt(expr) ==
    /\ Lowering
    /\ StmtDone(Expression(expr), generate_expr_stmt(Self, expr))

\* the stack slots generate_fn_decl gave the parameters
RECURSIVE ParamSlots(_, _, _)
ParamSlots(params, i, offset) ==
    IF i > Len(params) THEN {}
    ELSE {offset + get_type_size(params[i].data_type)}
         \cup ParamSlots(params, i + 1,
                         offset + get_type_size(params[i].data_type))

\* the operand of the subq the prologue emitted, 0 when it emitted none
Reserved(G, from) ==
    IF \E i \in (from + 1)..Len(G.output) : G.output[i].inst = "subq"
    THEN G.output[CHOOSE i \in (from + 1)..Len(G.output) :
                      G.output[i].inst = "subq"].a.v.w
    ELSE 0

FnDeclEntered(func_decl, G) ==
    /\ Commit(G)
    /\ Logged(func_decl, G)
    /\ frames' = IF G.ok
                 THEN Append(frames,
                             [name |-> func_decl.name,
                              params |-> func_decl.params,
                              reserved |-> Reserved(G, Len(output)),
                              slots |-> ParamSlots(func_decl.params, 1, 0)])
                 ELSE frames
    /\ UNCHANGED <<t_output, lexvars, parsevars>>

\* generate_stmt on a FunctionDecl, up to its body
GenerateFnDecl(func_decl) ==
    /\ Lowering
    /\ FnDeclEntered(func_decl, fn_decl_enter(Self, func_decl))

FnDeclLeft(G) ==
    /\ Commit(G)
    /\ frames' = SubSeq(frames, 1, Len(frames) - 1)
    /\ UNCHANGED <<t_output, glog, lexvars, parsevars>>

\* generate_fn_decl, after the last statement of its body
FnDeclLeave ==
    /\ gresult = "running"
    /\ frames # <<>>
    /\ FnDeclLeft(fn_decl_leave(Self))

GenerateFinished(G) ==
    /\ output' = G.output
    /\ gresult' = "ok"
    /\ UNCHANGED <<strings, variable_offsets, variable_types, string_sect,
                   label_count, rbp_offset, t_output, frames, glog, lexvars,
                   parsevars>>

\* CodeGen::generate, after its last statement
GenerateFinish ==
    /\ gresult = "running"
    /\ frames = <<>>
    /\ GenerateFinished(generate_finish(Self, t_output))

NextGen ==
    \/ GenerateStart
    \/ \E var_decl \in GenVarDecls : GenerateVarDecl(var_decl)
    \/ \E ret \in GenReturns : GenerateReturn(ret)
    \/ \E expr \in GenExprs : GenerateExprStmt(expr)
    \/ frames = <<>> /\ \E func_decl \in GenFnDecls : GenerateFnDecl(func_decl)
    \/ FnDeclLeave
    \/ GenerateFinish

SpecGen == InitGen /\ [][NextGen]_vars

\* programs of one statement with a long parameter or argument list
NextWide ==
    \/ GenerateStart
    \/ /\ glog = <<>>
       /\ \E k \in 0..MaxParams : \E ts \in [1..k -> GenTypes] :
             GenerateFnDecl(FunctionDecl(T_int, N_f, <<>>, WideParams(ts)))
    \/ /\ glog = <<>>
       /\ \E k \in 0..MaxArgs : \E args \in [1..k -> WideArgs] :
             GenerateExprStmt(FunctionCall(N_f, args))
    \/ FnDeclLeave
    \/ GenerateFinish

SpecWide == InitGen /\ [][NextWide]_vars

-----------------------------------------------------------------------------
(* Whole compilation units on one CodeGen: a few kinds of statement, more  *)
(* of them per run, and generate called again on the instance once a run   *)
(* has returned.                                                           *)

\* the most entries of the history in the unit specification
MaxUnitStmts == 4

UnitVarDecls ==
    {VariableDecl(T_int, N_x, Number(Whole(5))),
     VariableDecl(T_char, N_y, Number(Whole(5))),
     VariableDecl(T_charptr, N_y, String(S_hi))}

UnitReturns == {Return(Identifier(N_x)), Return(Number(Whole(5)))}

UnitExprs == {FunctionCall(N_f, <<Identifier(N_x)>>)}

UnitFnDecls ==
    {FunctionDecl(T_int, n, <<>>, pl) :
        n \in {N_f, N_main}, pl \in {<<>>, <<Parameter(T_int, N_p)>>}}

UnitLowering == gresult = "running" /\ Len(glog) < MaxUnitStmts

\* the history entry of a further call of generate on the instance
GenerateMark ==
    [stmt |-> [s |-> "Generate"], ok |-> TRUE, depth |-> 0,
     from |-> 0, to |-> 0]

\* CodeGen::generate called on an instance whose earlier call has returned
\* (Ok or Err): its first lines, the output buffer swapped out
GenerateAgain ==
    /\ gresult \in {"ok", "err"}
    /\ Len(glog) < MaxUnitStmts
    /\ t_output' = output
    /\ output' = <<>>
    /\ gresult' = "running"
    /\ frames' = <<>>
    /\ glog' = Append(glog, GenerateMark)
    /\ UNCHANGED <<strings, variable_offsets, variable_types, string_sect,
                   label_count, rbp_offset, lexvars, parsevars>>

NextUnit ==
    \/ GenerateStart
    \/ GenerateAgain
    \/ /\ UnitLowering
       /\ \E var_decl \in UnitVarDecls :
             VarDeclDone(var_decl, generate_var_decl(Self, var_decl))
    \/ /\ UnitLowering
       /\ \E ret \in UnitReturns :
             StmtDone(ret, generate_return_stmt(Self, ret))
    \/ /\ UnitLowering
       /\ \E expr \in UnitExprs :
             StmtDone(Expression(expr), generate_expr_stmt(Self, expr))
    \/ /\ UnitLowering
       /\ frames = <<>>
       /\ \E func_decl \in UnitFnDecls :
             FnDeclEntered(func_decl, fn_decl_enter(Self, func_decl))
    \/ FnDeclLeave
    \/ GenerateFinish

\* CodeGen::new as a value, and generate_stmt on it: what a fresh instance
\* does with a statement
CodeGenNew ==
    [output |-> <<>>, strings |-> EmptyMap, variable_offsets |-> EmptyMap,
     variable_types |-> EmptyMap, string_sect |-> <<>>, label_count |-> 0,
     rbp_offset |-> 0, ok |-> TRUE]

generate_stmt(G, stmt) ==
    CASE stmt.s = "VariableDecl" -> generate_var_decl(G, stmt)
      [] stmt.s = "FunctionDecl" -> fn_decl_enter(G, stmt)
      [] stmt.s = "Expression" -> generate_expr_stmt(G, stmt.expr)
      [] stmt.s = "Return" -> generate_return_stmt(G, stmt)

\* the statements of entries i .. of the history lowered on G, a function
\* entered being left before the next top-level statement and at the end
leave_if(G, open) == IF open /\ G.ok THEN fn_decl_leave(G) ELSE G

RECURSIVE generate_from(_, _, _)
generate_from(G, i, open) ==
    IF ~G.ok THEN G
    ELSE IF i > Len(glog) THEN leave_if(G, open)
    ELSE generate_from(
            generate_stmt(leave_if(G, open /\ glog[i].depth = 0), glog[i].stmt),
            i + 1,
            glog[i].stmt.s = "FunctionDecl" \/ (open /\ glog[i].depth > 0))

SpecUnit == InitGen /\ [][NextUnit]_vars

IsEOFCall(c) == c.ok /\ c.tok.token_type = "EOF"

(* C8: every next_token call that does not return EOF consumes at least one
   source character (also when it returns an error), so at most Len(source)
   calls return something else than EOF; and every call made after EOF was
   first returned returns EOF again. *)
C8_LexerReachesEOF ==
    /\ \A i \in 1..Len(calls) :
          /\ ~IsEOFCall(calls[i]) => calls[i].after > calls[i].before
          /\ calls[i].after <= Len(source)
    /\ Cardinality({i \in 1..Len(calls) : ~IsEOFCall(calls[i])}) <= Len(source)
    /\ \A i, j \in 1..Len(calls) :
          i < j /\ IsEOFCall(calls[i]) => IsEOFCall(calls[j])

\* an error call, a token, then EOF returned twice in a row
C8_Witness ==
    /\ Len(calls) = 4
    /\ ~calls[1].ok
    /\ calls[2].ok /\ calls[2].tok.token_type = "Identifier"
    /\ IsEOFCall(calls[3]) /\ IsEOFCall(calls[4])

(* C1: a lexical error is fatal: whenever the lexer met an unknown character
   or an unterminated string literal during the parse, Parser::parse returns
   an error, never Ok with the statements parsed before the character. *)
C1_LexicalErrorIsFatal ==
    (presult # "running" /\ ps.lexerr) => presult = "err"

(* C2: `return e` is lexed to a Return token and parsed to Stmt::Return, so
   scenario 1 parses to one function main whose body is exactly
   [VariableDecl x = 5, Return(Identifier x)]. *)
C2_ReturnStatementParsed ==
    (source = Scenario1 /\ presult # "running") =>
        /\ presult = "ok"
        /\ stmts = <<FunctionDecl(T_int, <<"m", "a", "i", "n">>,
                        <<VariableDecl(T_int, <<"x">>, Number([w |-> 5, fd |-> <<>>])),
                          Return(Identifier(<<"x">>))>>,
                        <<>>)>>

(* C5: a flat chain of primaries separated by + - * / (tokens separated by
   whitespace) parses to the tree of the standard grouping: * and / bind
   tighter than + and -, operators of equal precedence group to the left. *)
C5_StandardGrouping ==
    (source \in ChainSources /\ presult # "running") =>
        /\ presult = "ok"
        /\ <<source, stmts>> \in ChainCases

\* a - 7 - a and a + 7 * a have been parsed
C5_Witness ==
    /\ presult = "ok"
    /\ \/ /\ source = <<"a", " ", "-", " ", "7", " ", "-", " ", "a">>
          /\ stmts[1].expr.left.e = "BinaryOp"
       \/ /\ source = <<"a", " ", "+", " ", "7", " ", "*", " ", "a">>
          /\ stmts[1].expr.right.e = "BinaryOp"

\* the string literals of the first six arguments of a call
ArgTexts(args) ==
    {args[i].text : i \in {j \in 1..Len(args) : j <= 6 /\ args[j].e = "String"}}

\* the texts a statement hands to generate_string
InternedBy(stmt) ==
    CASE stmt.s = "VariableDecl" /\ stmt.value.e = "String" ->
            IF Len(stmt.value.text) = 1 THEN {} ELSE {stmt.value.text}
      [] stmt.s = "VariableDecl" /\ stmt.value.e = "FunctionCall" ->
            ArgTexts(stmt.value.args)
      [] stmt.s = "Expression" /\ stmt.expr.e = "FunctionCall" ->
            ArgTexts(stmt.expr.args)
      [] OTHER -> {}

\* the pool after any sequence of internings: one label per text, distinct
\* texts under distinct labels, one .LCn entry per text in string_sect
PoolConsistent ==
    /\ \A i \in 1..Len(glog) :
          glog[i].ok => InternedBy(glog[i].stmt) \subseteq DOMAIN strings
    /\ \A t, u \in DOMAIN strings : strings[t] = strings[u] => t = u
    /\ {strings[t] : t \in DOMAIN strings} = 0..(label_count - 1)
    /\ Len(string_sect) = 2 * Cardinality(DOMAIN strings)
    /\ \A t \in DOMAIN strings :
          /\ string_sect[2 * strings[t] + 1] = Line("label", Lbl(strings[t]), NoOperand)
          /\ string_sect[2 * strings[t] + 2] =
                Line(".string", Sym(get_escaped_string(t)), NoOperand)

\* a step that interns no new text leaves the counter and the buffer alone,
\* and no text ever changes its label
PoolStep ==
    /\ DOMAIN strings \subseteq DOMAIN strings'
    /\ \A t \in DOMAIN strings : strings'[t] = strings[t]
    /\ DOMAIN strings' = DOMAIN strings =>
          label_count' = label_count /\ string_sect' = string_sect

(* C3: string-pool deduplication: after any sequence of internings of one
   generate run each distinct text has exactly one label index, distinct
   texts have distinct indices, string_sect holds exactly one .LCn entry per
   text, and interning a text already present changes neither label_count
   nor string_sect. *)
C3_StringPoolDeduplicated == [](PoolConsistent) /\ [][PoolStep]_vars

\* "hi" interned by two statements, "yo" by one: two labels
C3_Witness ==
    /\ Len(glog) = 2
    /\ glog[1].ok /\ glog[2].ok
    /\ S_hi \in InternedBy(glog[1].stmt) \cap InternedBy(glog[2].stmt)
    /\ S_yo \in InternedBy(glog[1].stmt)
    /\ label_count = 2

(* C4: generating a FunctionDecl with seven or more parameters returns a
   code-generation error whatever the parameter types; generate never
   returns Ok after spilling only the first six. *)
C4_SevenParamsFail ==
    \A i \in 1..Len(glog) :
        (glog[i].stmt.s = "FunctionDecl" /\ Len(glog[i].stmt.params) >= 7) =>
            ~glog[i].ok /\ gresult = "err"

\* seven parameters of known types: six were spilled, then the error
C4_Witness ==
    /\ Len(glog) = 1
    /\ glog[1].stmt.s = "FunctionDecl"
    /\ Len(glog[1].stmt.params) = 7
    /\ \A i \in 1..7 : glog[1].stmt.params[i].data_type \in KnownTypes
    /\ gresult = "err"
    /\ Cardinality({k \in 1..Len(output) : output[k].b.k = "mem"}) = 6

(* C6: a function call with more than six arguments fails with a
   code-generation error: generate_function_call never returns success
   after loading only the first six arguments. *)
C6_SevenArgsFail ==
    \A i \in 1..Len(glog) :
        (glog[i].stmt.s = "Expression" /\ glog[i].stmt.expr.e = "FunctionCall"
         /\ Len(glog[i].stmt.expr.args) > 6) => ~glog[i].ok

(* C7: generating a VariableDecl whose declared type is not int, char or
   char* returns a code-generation error for every initializer form. *)
C7_UnknownTypeFails ==
    \A i \in 1..Len(glog) :
        (glog[i].stmt.s = "VariableDecl"
         /\ glog[i].stmt.data_type \notin KnownTypes) => ~glog[i].ok

(* C9: for every function with at least one parameter or local, the
   prologue reserves N bytes (subq $N, %rsp), N a multiple of 16 and at
   least the largest stack offset assigned to a parameter or local of the
   function. *)
C9_FrameCoversSlots ==
    \A f \in 1..Len(frames) :
        /\ frames[f].reserved % 16 = 0
        /\ \A k \in frames[f].slots : k <= frames[f].reserved

\* the event that entered function f's body was the last statement lowered
JustEntered ==
    /\ gresult = "running"
    /\ frames # <<>>
    /\ glog # <<>>
    /\ glog[Len(glog)].stmt.s = "FunctionDecl"

\* the load of a variable of a type from its slot into a register
LoadInst(data_type) ==
    CASE data_type = T_int -> "movl"
      [] data_type = T_char -> "movzbl"
      [] data_type = T_charptr -> "movq"

\* event i reads parameter prm of the function entered by event i - 1
ReadsParam(i, prm) ==
    /\ i >= 2
    /\ glog[i - 1].stmt.s = "FunctionDecl" /\ glog[i - 1].ok
    /\ \E j \in 1..Len(glog[i - 1].stmt.params) : glog[i - 1].stmt.params[j] = prm
    /\ \/ /\ glog[i].stmt.s = "Return"
          /\ glog[i].stmt.value = Identifier(prm.name)
          /\ prm.data_type \in {T_int, T_char}
       \/ /\ glog[i].stmt.s = "Expression"
          /\ glog[i].stmt.expr.e = "FunctionCall"
          /\ glog[i].stmt.expr.args = <<Identifier(prm.name)>>
          /\ prm.data_type \in KnownTypes

(* C10: after generate_fn_decl has assigned its parameters every parameter
   has its stack offset and its declared type recorded, so `return p` and
   `f(p)` in the body succeed and load p's slot with the width of p's
   declared type. *)
C10_ParametersUsable ==
    /\ JustEntered =>
          \A j \in 1..Len(frames[Len(frames)].params) :
              LET prm == frames[Len(frames)].params[j]
              IN  /\ prm.name \in DOMAIN variable_offsets
                  /\ prm.name \in DOMAIN variable_types
                  /\ variable_types[prm.name] = prm.data_type
    /\ \A i \in 1..Len(glog) :
          \A prm \in {Parameter(t, n) : t \in KnownTypes, n \in {N_p, N_q}} :
              ReadsParam(i, prm) =>
                  /\ glog[i].ok
                  /\ gresult # "ok" =>
                        /\ output[glog[i].from + 1].inst = LoadInst(prm.data_type)
                        /\ output[glog[i].from + 1].a = Mem(variable_offsets[prm.name])

\* history entry e declares the name n (a local or a parameter)
Declares(e, n) ==
    \/ e.stmt.s = "VariableDecl" /\ e.stmt.name = n
    \/ /\ e.stmt.s = "FunctionDecl"
       /\ \E q \in 1..Len(e.stmt.params) : e.stmt.params[q].name = n

\* the statement reads the variable n: return n, or n as a call argument
UsesName(stmt, n) ==
    \/ stmt.s = "Return" /\ stmt.value = Identifier(n)
    \/ /\ stmt.s = "Expression"
       /\ stmt.expr.e = "FunctionCall"
       /\ \E a \in 1..Len(stmt.expr.args) : stmt.expr.args[a] = Identifier(n)

\* the entry of the FunctionDecl whose body statement i belongs to
EnclosingFn(i) ==
    CHOOSE j \in 1..(i - 1) :
        /\ glog[j].stmt.s = "FunctionDecl"
        /\ \A k \in (j + 1)..(i - 1) : glog[k].stmt.s # "FunctionDecl"

\* statement i of a function body reads n, which its own function does not
\* declare and an earlier function does
ReadsForeign(i, n) ==
    /\ glog[i].depth = 1
    /\ UsesName(glog[i].stmt, n)
    /\ \A k \in EnclosingFn(i)..(i - 1) : ~Declares(glog[k], n)
    /\ \E k \in 1..(EnclosingFn(i) - 1) :
          Declares(glog[k], n)
          /\ (glog[k].depth = 1 \/ glog[k].stmt.s = "FunctionDecl")
    /\ \A k \in 1..(EnclosingFn(i) - 1) :
          Declares(glog[k], n) =>
              (glog[k].depth = 1 \/ glog[k].stmt.s = "FunctionDecl")

(* C11: the variable maps are rebuilt per function: an Identifier read in
   the second function's body (in a return or as a call argument) that
   names a variable or parameter declared only in an earlier function
   yields a code-generation error; a stale offset or type is never used. *)
C11_ForeignNameFails ==
    \A i \in 1..Len(glog) : \A n \in {N_x, N_y, N_p} :
        ReadsForeign(i, n) => ~glog[i].ok

\* the bytes below %rbp a store of the instruction writes at -offset(%rbp),
\* and the bytes of a slot of a size at an offset: distances from %rbp
WriteWidth(inst) ==
    CASE inst = "movb" -> 1
      [] inst = "movl" -> 4
      [] inst = "movq" -> 8

BytesAt(offset, size) == (offset - size + 1)..offset

\* the offset generate_fn_decl gave the q-th parameter
RECURSIVE ParamOffset(_, _)
ParamOffset(params, q) ==
    IF q = 0 THEN 0
    ELSE ParamOffset(params, q - 1) + get_type_size(params[q].data_type)

\* the lines of history entry i that store to a stack slot, in order
StoresOf(i) ==
    SelectSeq([k \in 1..(glog[i].to - glog[i].from) |-> output[glog[i].from + k]],
              LAMBDA line : line.b.k = "mem")

\* the store `line` leaves the slot of parameter q of the frame alone
SparesParam(line, frame, q) ==
    BytesAt(line.b.v.w, WriteWidth(line.inst))
    \cap BytesAt(ParamOffset(frame.params, q),
                 get_type_size(frame.params[q].data_type)) = {}

\* the initializer of the declaration has the declared type
WellTyped(decl) ==
    CASE decl.value.e = "Number" -> decl.data_type \in {T_int, T_char}
      [] decl.value.e = "String" ->
            IF Len(decl.value.text) = 1 THEN decl.data_type = T_char
            ELSE decl.data_type = T_charptr
      [] decl.value.e = "FunctionCall" -> decl.data_type \in {T_int, T_char}
      [] OTHER -> FALSE

\* the last statement lowered is a well-typed local declaration in a
\* function body
LocalJustDeclared ==
    /\ gresult = "running"
    /\ frames # <<>>
    /\ glog # <<>>
    /\ glog[Len(glog)].stmt.s = "VariableDecl"
    /\ WellTyped(glog[Len(glog)].stmt)
    /\ glog[Len(glog)].ok

(* C12: stack slots of one function never interfere: the bytes written by
   the instruction that spills a parameter or initialises a local (1 for
   movb, 4 for movl, 8 for movq, from -offset(%rbp)) never include a byte of
   the slot of a different parameter or local of that function. *)
C12_SlotsDoNotInterfere ==
    /\ JustEntered =>
          LET frame == frames[Len(frames)]
              spills == StoresOf(Len(glog))
          IN  \A j \in 1..Len(spills) : \A q \in 1..Len(frame.params) :
                  q # j => SparesParam(spills[j], frame, q)
    /\ LocalJustDeclared =>
          LET frame == frames[Len(frames)]
              stores == StoresOf(Len(glog))
              decl == glog[Len(glog)].stmt
          IN  \A j \in 1..Len(stores) :
                  /\ \A q \in 1..Len(frame.params) :
                        frame.params[q].name # decl.name =>
                            SparesParam(stores[j], frame, q)
                  /\ \A k \in (EnclosingFn(Len(glog)) + 1)..(Len(glog) - 1) :
                        (glog[k].stmt.s = "VariableDecl"
                         /\ glog[k].stmt.name # decl.name) =>
                            BytesAt(stores[j].b.v.w, WriteWidth(stores[j].inst))
                            \cap BytesAt(variable_offsets[glog[k].stmt.name],
                                         get_type_size(glog[k].stmt.data_type))
                               = {}

\* generate was called again on the instance; the entry of the last call
CalledAgain == \E j \in 1..Len(glog) : glog[j].stmt.s = "Generate"

LastCall ==
    CHOOSE j \in 1..Len(glog) :
        /\ glog[j].stmt.s = "Generate"
        /\ \A k \in (j + 1)..Len(glog) : glog[k].stmt.s # "Generate"

\* what a fresh CodeGen returns for the statements of the last call
FreshRun == generate_from(CodeGenNew, LastCall + 1, FALSE)

(* C13: code-generator state is reset per compilation unit: a second call
   of generate on the same CodeGen returns exactly the text a fresh
   instance returns for that statement sequence; nothing the first call
   left (output, string pool, rodata, label counter, variable maps)
   appears in or alters the second result. *)
C13_SecondRunLikeFresh ==
    (gresult = "ok" /\ CalledAgain) =>
        /\ FreshRun.ok
        /\ output = generate_finish(FreshRun, <<>>).output

\* this step lowers a declaration of a known type in a function body
DeclaresLocal ==
    /\ frames # <<>>
    /\ Len(glog') = Len(glog) + 1
    /\ glog'[Len(glog')].stmt.s = "VariableDecl"
    /\ glog'[Len(glog')].stmt.data_type \in KnownTypes

\* after the declaration the counter is a multiple of 8, has grown by at
\* least the size of the type, and is the offset recorded for the variable
CounterAdvanced ==
    /\ rbp_offset' % 8 = 0
    /\ rbp_offset' >= rbp_offset + get_type_size(glog'[Len(glog')].stmt.data_type)
    /\ get_type_size(glog'[Len(glog')].stmt.data_type) \in {1, 4, 8}
    /\ glog'[Len(glog')].stmt.name \in DOMAIN variable_offsets'
    /\ variable_offsets'[glog'[Len(glog')].stmt.name] = rbp_offset'

\* the declarations of locals lowered so far in the function being lowered
LocalDecls ==
    {glog[k].stmt : k \in {j \in 1..Len(glog) :
        /\ j > EnclosingFn(Len(glog) + 1)
        /\ glog[j].stmt.s = "VariableDecl"
        /\ glog[j].stmt.data_type \in KnownTypes}}

\* locals of the function being lowered under different names have
\* different offsets
LocalsApart ==
    frames # <<>> =>
        \A d1, d2 \in LocalDecls :
            d1.name # d2.name =>
                variable_offsets[d1.name] # variable_offsets[d2.name]

(* C14: within one function body, after every VariableDecl of type int,
   char or char* the stack-offset counter is a multiple of 8, exceeds its
   value before the declaration by at least the type's size (4, 1, 8) and
   equals the offset recorded for the variable; the counter never
   decreases between statements of one function and two locals of
   different names in one function never get the same offset. *)
C14_CounterMonotoneAligned ==
    /\ [][DeclaresLocal => CounterAdvanced]_vars
    /\ [][(frames # <<>> /\ frames' # <<>>) => rbp_offset' >= rbp_offset]_vars
    /\ []LocalsApart

\* int x then char y declared in one function body: offsets 8 and 16
C14_Witness ==
    /\ frames # <<>>
    /\ gresult = "running"
    /\ Len(glog) >= 3
    /\ glog[Len(glog) - 1].stmt = VariableDecl(T_int, N_x, Number(Whole(5)))
    /\ glog[Len(glog)].stmt = VariableDecl(T_char, N_y, Number(Whole(5)))
    /\ glog[Len(glog) - 1].depth = 1 /\ glog[Len(glog)].depth = 1
    /\ variable_offsets[N_x] = 8 /\ variable_offsets[N_y] = 16
    /\ rbp_offset = 16

(* C15: a VariableDecl whose initializer is an identifier reference or a
   binary operation is not a silent success: generate_var_decl reports an
   unsupported-expression error instead of returning Ok with no store. *)
C15_UnloweredInitializerFails ==
    \A i \in 1..Len(glog) :
        (glog[i].stmt.s = "VariableDecl"
         /\ glog[i].stmt.value.e \in {"Identifier", "BinaryOp"}) => ~glog[i].ok

(* C16: for a VariableDecl with a Number initializer n the immediate of the
   emitted store is the integer truncation of n, the integer a Return of
   the same literal moves into the return register; it never has a
   fractional part. *)
C16_StoredNumberTruncated ==
    \A i \in 1..Len(glog) :
        (gresult = "running"
         /\ glog[i].stmt.s = "VariableDecl"
         /\ glog[i].stmt.value.e = "Number") =>
            /\ glog[i].ok
            /\ glog[i].to = glog[i].from + 1
            /\ output[glog[i].to].a.k = "imm"
            /\ output[glog[i].to].a.v.fd = <<>>
            /\ output[glog[i].to].a =
                  generate_return_stmt(CodeGenNew,
                                       Return(glog[i].stmt.value)).output[1].a

\* movl $0, %eax, and a call of a callee
Zeroing == Line("movl", Imm(Whole(0)), Reg("%eax"))
CallOf(callee) == Line("call", Sym(callee), NoOperand)

\* the call a history entry lowers: of an expression statement or of the
\* initializer of a declaration
HasCall(stmt) ==
    \/ stmt.s = "Expression" /\ stmt.expr.e = "FunctionCall"
    \/ stmt.s = "VariableDecl" /\ stmt.value.e = "FunctionCall"

CallIn(stmt) == IF stmt.s = "Expression" THEN stmt.expr ELSE stmt.value

\* the lines entry i emitted, and the position of its call among them
LinesOf(i) ==
    [k \in 1..(glog[i].to - glog[i].from) |-> output[glog[i].from + k]]

CallAt(i) == CHOOSE k \in 1..Len(LinesOf(i)) : LinesOf(i)[k].inst = "call"

\* line k of a call's lines loads the k-th argument register
LoadsArg(line, k) ==
    /\ line.inst \in {"movl", "movq", "movzbl", "leaq"}
    /\ line.b.k = "reg"
    /\ line.b.r \in {arg_regs[k], regs_32bit[k]}

\* entry i emitted its call: the argument loads, the zeroing for printf
\* only, the call, in this order and nothing in between
CallShape(i) ==
    LET call == CallIn(glog[i].stmt)
        lines == LinesOf(i)
        n == IF Len(call.args) < 6 THEN Len(call.args) ELSE 6
    IN  /\ \A k \in 1..n : LoadsArg(lines[k], k)
        /\ lines[CallAt(i)] = CallOf(call.callee)
        /\ IF call.callee = N_printf
           THEN CallAt(i) = n + 2 /\ lines[n + 1] = Zeroing
           ELSE CallAt(i) = n + 1 /\ \A k \in 1..CallAt(i) : lines[k] # Zeroing

(* C17 (as amended): every `call printf` that generate_function_call emits
   is immediately preceded by `movl $0, %eax`, emitted after all argument
   loads of that call with nothing in between; for a call of any other
   callee generate_function_call emits the argument loads and the call
   only, no zeroing instruction. *)
C17_PrintfZeroedPerCall ==
    \A i \in 1..Len(glog) :
        (gresult \in {"running", "err"} /\ HasCall(glog[i].stmt)) =>
            IF \E k \in 1..Len(LinesOf(i)) : LinesOf(i)[k].inst = "call"
            THEN CallShape(i)
            ELSE ~glog[i].ok

\* printf("hi", "yo") and then f with one argument, both lowered
C17_Witness ==
    /\ gresult = "running"
    /\ Len(glog) = 2
    /\ glog[1].stmt = Expression(FunctionCall(N_printf, <<String(S_hi), String(S_yo)>>))
    /\ glog[1].ok /\ glog[2].ok
    /\ glog[2].stmt.s = "Expression"
    /\ glog[2].stmt.expr.e = "FunctionCall"
    /\ glog[2].stmt.expr.callee = N_f
    /\ Len(glog[2].stmt.expr.args) = 1
    /\ output[4] = CallOf(N_printf)
    /\ output[6] = CallOf(N_f)

(* C17 (as stated): in the emitted instruction sequence every `call printf`
   is immediately preceded by `movl $0, %eax`, and a call of any other
   callee is not preceded by that instruction. *)
C17_ZeroingOnlyBeforePrintf ==
    \A k \in 1..Len(output) :
        output[k].inst = "call" =>
            IF output[k] = CallOf(N_printf)
            THEN k > 1 /\ output[k - 1] = Zeroing
            ELSE ~(k > 1 /\ output[k - 1] = Zeroing)

(* C18: in the lexeme of an Identifier or DataType token the character `*`
   occurs only as a trailing character, so `b*c` written without spaces
   lexes as Identifier, Mul, Identifier like `b * c`. *)
C18_StarOnlyTrailing ==
    \A i \in 1..Len(calls) :
        (calls[i].ok /\ calls[i].tok.token_type \in {"Identifier", "DataType"}) =>
            \A j \in 1..Len(calls[i].tok.lexeme) :
                calls[i].tok.lexeme[j] = "*" =>
                    \A k \in j..Len(calls[i].tok.lexeme) :
                        calls[i].tok.lexeme[k] = "*"

=============================================================================
